---- MODULE Spec2Model ----
(***************************************************************************)
(* Model of hw/char/oxpcie-serial.c: a PCI function that aggregates two    *)
(* 16550A UARTs behind one 16 KiB memory BAR and one INTx line.            *)
(*                                                                         *)
(* The device-model callbacks run one at a time (big device lock), so each *)
(* handler is a sequence of steps that no other handler interleaves with:  *)
(* pc is the position inside multi_serial_pci_realize, and every other     *)
(* handler is enabled only while pc = "idle".                              *)
(***************************************************************************)
EXTENDS Integers, Sequences, FiniteSets, TLC

(* ------------------------------ bounds -------------------------------- *)

\* how many times the framework may call realize on one object
MaxActivate == 2
\* highest version tag an incoming migration stream may carry
MaxVersion == 2
\* the opaque state of one serial sub-device is one value of 0..MaxSerialState
MaxSerialState == 1

(* ------------------------- program constants -------------------------- *)

nports == 2
MMIOBAR_SIZE == 16384
SUBREGION_BASE == 4096
SUBREGION_STRIDE == 512
SUBREGION_SIZE == 8

Ports == 0 .. (nports - 1)
Levels == 0 .. 1
SerialStates == 0 .. MaxSerialState

VARIABLES
    status,         \* "created" | "realizing" | "realized" | "failed" |
                    \* "load_failed" | "removed"
    pc,             \* position inside multi_serial_pci_realize, or "idle"
    i,              \* loop variable of multi_serial_pci_realize
    ports,          \* pci->ports
    level,          \* pci->level[2]
    line,           \* INTx level held in pci->dev (set by pci_set_irq)
    name,           \* pci->name[2]: "null" | "live" | "freed" (dangling)
    serialRealized, \* pci->serial[k].serial is realized
    serialState,    \* opaque register state of pci->serial[k]
    serialIrq,      \* pci->serial[k].serial.irq: -1 (NULL) or the mux input
    mmiobar,        \* [init, registered, sub]: the BAR and its sub-regions
    irqs,           \* [array, src]: pci->irqs and the two qemu_irq objects
    released,       \* history: how often each resource was handed to a release
    activations,    \* history: number of realize calls so far
    saved,          \* the stream written by the last Save, <<>> if none
    savedFrom,      \* history: the device state the last Save was taken in
    lastOp,         \* history: the handler that produced this state
    lastBlob,       \* history: the stream the last Restore read
    lastArgs,       \* history: <<n, level>> of the last mux call, <<version,
                    \* failing sub-device>> of the last Restore, else <<>>
    ret,            \* result of the last handler that returns one
    driven          \* history: values the last handler passed to pci_set_irq

vars == << status, pc, i, ports, level, line, name, serialRealized,
           serialState, serialIrq, mmiobar, irqs, released, activations,
           saved, savedFrom, lastOp, lastBlob, lastArgs, ret, driven >>

deviceVars == << pc, i, ports, name, serialRealized, serialIrq,
                 mmiobar, irqs, released, activations >>
lifecycleVars == << status, deviceVars >>
snapshotVars == << saved, savedFrom >>

NoRelease == [ name |-> [p \in Ports |-> 0],
               irq |-> [p \in Ports |-> 0],
               irqArray |-> 0,
               unrealizeIdle |-> {},
               delUnmapped |-> {} ]

NoSaved == [ level |-> <<>>, serial |-> <<>>, line |-> 0 ]

\* PCIOxpcieSerialState after object allocation (zeroed) and multi_serial_init
Init ==
    /\ status = "created"
    /\ pc = "idle"
    /\ i = 0
    /\ ports = 0
    /\ level = [p \in Ports |-> 0]
    /\ line = 0
    /\ name = [p \in Ports |-> "null"]
    /\ serialRealized = [p \in Ports |-> FALSE]
    /\ serialState = [p \in Ports |-> 0]
    /\ serialIrq = [p \in Ports |-> -1]
    /\ mmiobar = [init |-> FALSE, registered |-> FALSE, sub |-> {}]
    /\ irqs = [array |-> "null", src |-> [p \in Ports |-> "none"]]
    /\ released = NoRelease
    /\ activations = 0
    /\ saved = <<>>
    /\ savedFrom = NoSaved
    /\ lastOp = "init"
    /\ lastBlob = <<>>
    /\ lastArgs = <<>>
    /\ ret = "none"
    /\ driven = <<>>

(* ------------------------ multi_serial_pci_exit ----------------------- *)

\* variant: the loop runs over the fixed number of ports
ExitLoop_nports == Ports

\* the loop of multi_serial_pci_exit visits k = 0 .. pci->ports - 1
ExitLoop == { k \in Ports : k < ports }

\* qemu_free_irqs(pci->irqs, n) releases the first n interrupt sources
FreeIrqsCount == ports

\* variant: exit also unregisters and destroys the BAR
BarAfterExit_released(bar) == [init |-> FALSE, registered |-> FALSE, sub |-> {}]

\* line 59: the sub-regions of the ports visited are deleted from the BAR;
\* the BAR itself is neither unregistered nor destroyed
BarAfterExit(bar) == [bar EXCEPT !.sub = { r \in @ : r.port \notin ExitLoop }]

\* the body of multi_serial_pci_exit; it leaves pci->ports, pci->name[] and
\* pci->irqs as they are (no store to any of them)
multi_serial_pci_exit ==
    /\ serialRealized' = [k \in Ports |->
                            IF k \in ExitLoop THEN FALSE ELSE serialRealized[k]]
    /\ mmiobar' = BarAfterExit(mmiobar)
    /\ name' = [k \in Ports |-> IF k \in ExitLoop THEN "freed" ELSE name[k]]
    /\ irqs' = [array |-> "freed",
                src |-> [k \in Ports |->
                           IF k < FreeIrqsCount THEN "freed" ELSE irqs.src[k]]]
    /\ released' =
         [ name |-> [k \in Ports |->
                       released.name[k] + (IF k \in ExitLoop THEN 1 ELSE 0)],
           irq |-> [k \in Ports |->
                       released.irq[k] + (IF k < FreeIrqsCount THEN 1 ELSE 0)],
           irqArray |-> released.irqArray + 1,
           unrealizeIdle |-> released.unrealizeIdle \cup
                       { k \in ExitLoop : ~serialRealized[k] },
           delUnmapped |-> released.delUnmapped \cup
                       { k \in ExitLoop :
                           \A r \in mmiobar.sub : r.port # k } ]
    /\ UNCHANGED << ports, serialIrq >>

(* ---------------------- multi_serial_pci_realize ---------------------- *)

\* when the framework may call realize: the sub-devices exist but none is
\* activated, and port_count is 0
ActivatePre ==
    /\ status \in {"created", "failed"}
    /\ pc = "idle"
    /\ ports = 0
    /\ \A k \in Ports : ~serialRealized[k]
    /\ activations < MaxActivate

\* lines 85-90: the BAR is initialised and registered, the interrupt
\* sources are allocated, the loop starts at i = 0
RealizeStart ==
    /\ status' = "realizing"
    /\ pc' = "qdev_realize"
    /\ i' = 0
    /\ mmiobar' = [init |-> TRUE, registered |-> TRUE, sub |-> mmiobar.sub]
    /\ irqs' = [array |-> "live", src |-> [k \in Ports |-> "live"]]
    /\ released' = [released EXCEPT !.irq = [k \in Ports |-> 0],
                                    !.irqArray = 0]
    /\ activations' = activations + 1
    /\ lastOp' = "realize"
    /\ lastBlob' = <<>>
    /\ lastArgs' = <<>>
    /\ ret' = "none"
    /\ driven' = <<>>
    /\ UNCHANGED << ports, level, line, name, serialRealized, serialState,
                    serialIrq, saved, savedFrom >>

RealizeBegin == ActivatePre /\ RealizeStart

\* line 93, qdev_realize succeeds
RealizeSubOk ==
    /\ pc = "qdev_realize"
    /\ i < nports
    /\ serialRealized' = [serialRealized EXCEPT ![i] = TRUE]
    /\ pc' = "wire"
    /\ UNCHANGED << status, i, ports, level, line, name, serialState,
                    serialIrq, mmiobar, irqs, released, activations,
                    saved, savedFrom, lastOp, lastBlob, lastArgs,
                    ret, driven >>

\* lines 93-95, qdev_realize fails: multi_serial_pci_exit, then return
RealizeSubFail ==
    /\ pc = "qdev_realize"
    /\ i < nports
    /\ multi_serial_pci_exit
    /\ pc' = "idle"
    /\ status' = "failed"
    /\ ret' = "ActivationError"
    /\ UNCHANGED << i, level, line, serialState, activations,
                    saved, savedFrom, lastOp, lastBlob, lastArgs,
                    driven >>

\* line 97: s->irq = pci->irqs[i]
RealizeWire ==
    /\ pc = "wire"
    /\ serialIrq' = [serialIrq EXCEPT ![i] = i]
    /\ pc' = "name"
    /\ UNCHANGED << status, i, ports, level, line, name, serialRealized,
                    serialState, mmiobar, irqs, released, activations,
                    saved, savedFrom, lastOp, lastBlob, lastArgs,
                    ret, driven >>

\* line 98: pci->name[i] = g_strdup_printf("uart #%zu", i + 1)
RealizeName ==
    /\ pc = "name"
    /\ name' = [name EXCEPT ![i] = "live"]
    /\ released' = [released EXCEPT !.name[i] = 0]
    /\ pc' = "map"
    /\ UNCHANGED << status, i, ports, level, line, serialRealized,
                    serialState, serialIrq, mmiobar, irqs, activations,
                    saved, savedFrom, lastOp, lastBlob, lastArgs,
                    ret, driven >>

\* variant: the stride is left out of the offset
SubregionOffset_nostride(k) == SUBREGION_BASE + k

SubregionOffset(k) == SUBREGION_BASE + SUBREGION_STRIDE * k

\* variant: the port is counted without its io region being added
RealizeMap_unmapped ==
    /\ pc = "map"
    /\ pc' = "inc"
    /\ UNCHANGED << status, i, ports, level, line, name, serialRealized,
                    serialState, serialIrq, mmiobar, irqs, released,
                    activations, saved, savedFrom, lastOp, lastBlob, lastArgs,
                    ret, driven >>

\* lines 99-101: the 8-byte io region of port i is added to the BAR
RealizeMap ==
    /\ pc = "map"
    /\ mmiobar' = [mmiobar EXCEPT !.sub = @ \cup
                     { [port |-> i, offset |-> SubregionOffset(i),
                        size |-> SUBREGION_SIZE] }]
    /\ pc' = "inc"
    /\ UNCHANGED << status, i, ports, level, line, name, serialRealized,
                    serialState, serialIrq, irqs, released, activations,
                    saved, savedFrom, lastOp, lastBlob, lastArgs,
                    ret, driven >>

\* variant: the counter is left as it is
NextPorts_stuck(p) == p

\* line 102: pci->ports++
NextPorts(p) == p + 1

\* line 102 and the loop step of line 91
RealizeInc ==
    /\ pc = "inc"
    /\ ports' = NextPorts(ports)
    /\ i' = i + 1
    /\ IF i + 1 < nports
         THEN /\ pc' = "qdev_realize"
              /\ UNCHANGED << status, ret >>
         ELSE /\ pc' = "idle"
              /\ status' = "realized"
              /\ ret' = "ok"
    /\ UNCHANGED << level, line, name, serialRealized, serialState,
                    serialIrq, mmiobar, irqs, released, activations,
                    saved, savedFrom, lastOp, lastBlob, lastArgs,
                    driven >>

(* ------------------------------ teardown ------------------------------ *)

\* when the framework may call the exit callback: once for teardown of an
\* activated device (also one whose incoming load failed), or after an
\* activation that failed
DeactivatePre ==
    /\ status \in {"realized", "load_failed", "failed"}
    /\ pc = "idle"

Deactivate ==
    /\ DeactivatePre
    /\ multi_serial_pci_exit
    /\ status' = "removed"
    /\ lastOp' = "exit"
    /\ lastBlob' = <<>>
    /\ lastArgs' = <<>>
    /\ ret' = "none"
    /\ driven' = <<>>
    /\ UNCHANGED << pc, i, level, line, serialState, activations,
                    saved, savedFrom >>

(* ------------------------ multi_serial_irq_mux ------------------------ *)

\* variant: only the entry that changed last decides
Pending_lastonly(lv, n) == IF n > 0 /\ lv[n - 1] # 0 THEN 1 ELSE 0

\* variant: the loop stops one entry early
Pending_short(lv, n) == IF \E k \in 0 .. (n - 2) : lv[k] # 0 THEN 1 ELSE 0

\* lines 68-75: pending after the loop over i < pci->ports
Pending(lv, n) == IF \E k \in 0 .. (n - 1) : lv[k] # 0 THEN 1 ELSE 0

\* variant: the new level is stored to every entry
StoreLevel_all(lv, n, lvl) == [k \in DOMAIN lv |-> lvl]

\* line 70: pci->level[n] = level
StoreLevel(lv, n, lvl) == [lv EXCEPT ![n] = lvl]

\* sub-device k drives its interrupt output: an activated sub-device whose
\* irq field points at a live mux input
CanRaise(k) ==
    /\ pc = "idle"
    /\ serialRealized[k]
    /\ serialIrq[k] \in Ports
    /\ irqs.src[serialIrq[k]] = "live"

\* input n of the multiplexer is driven by a sub-device
Deliverable(n) == \E k \in Ports : CanRaise(k) /\ serialIrq[k] = n

multi_serial_irq_mux(n, lvl) ==
    /\ level' = StoreLevel(level, n, lvl)
    /\ line' = Pending(level', ports)
    /\ driven' = << Pending(level', ports) >>
    /\ lastOp' = "mux"
    /\ lastBlob' = <<>>
    /\ lastArgs' = << n, lvl >>
    /\ ret' = "none"
    /\ UNCHANGED << lifecycleVars, serialState, snapshotVars >>

OnLevelChange ==
    \E n \in Ports, lvl \in Levels :
        Deliverable(n) /\ multi_serial_irq_mux(n, lvl)

(* --------------------------- register access -------------------------- *)

\* a guest access through the mapped io region of port k changes the
\* sub-device's own state
SerialAccess ==
    \E k \in Ports, v \in SerialStates :
        /\ pc = "idle"
        /\ serialRealized[k]
        /\ \E r \in mmiobar.sub : r.port = k
        /\ serialState' = [serialState EXCEPT ![k] = v]
        /\ lastOp' = "access"
        /\ lastBlob' = <<>>
        /\ lastArgs' = <<>>
        /\ ret' = "none"
        /\ driven' = <<>>
        /\ UNCHANGED << lifecycleVars, level, line, snapshotVars >>

(* ---------------------- vmstate_pci_multi_serial ---------------------- *)

\* variant: the description is declared with version 2
version_id_2 == 1 + 1

version_id == 1
minimum_version_id == 1

\* variant: the level array is declared with one element
vmstate_fields_level1 ==
    << [name |-> "dev",    idx |-> 0],
       [name |-> "serial", idx |-> 0],
       [name |-> "serial", idx |-> 1],
       [name |-> "level",  idx |-> 0] >>

\* variant: the two sub-device states are listed in the opposite order
vmstate_fields_swapped ==
    << [name |-> "dev",    idx |-> 0],
       [name |-> "serial", idx |-> 1],
       [name |-> "serial", idx |-> 0],
       [name |-> "level",  idx |-> 0],
       [name |-> "level",  idx |-> 1] >>

\* variant: the PCI function's own state is missing from the description
vmstate_fields_nodev ==
    << [name |-> "serial", idx |-> 0],
       [name |-> "serial", idx |-> 1],
       [name |-> "level",  idx |-> 0],
       [name |-> "level",  idx |-> 1] >>

\* variant: the port counter is listed as a field of its own
vmstate_fields_ports ==
    << [name |-> "dev",    idx |-> 0],
       [name |-> "serial", idx |-> 0],
       [name |-> "serial", idx |-> 1],
       [name |-> "level",  idx |-> 0],
       [name |-> "level",  idx |-> 1],
       [name |-> "ports",  idx |-> 0] >>

\* the field list of the description, in stream order: the PCI function's
\* own state, the two sub-device states, the two level words.  The array
\* sizes are constants of the description; the stream carries no count.
vmstate_fields ==
    << [name |-> "dev",    idx |-> 0],
       [name |-> "serial", idx |-> 0],
       [name |-> "serial", idx |-> 1],
       [name |-> "level",  idx |-> 0],
       [name |-> "level",  idx |-> 1] >>

\* the value a field contributes to the stream; the INTx level is part of
\* the PCI function's state, which pci_set_irq(&pci->dev, ...) updates
FieldValue(f) ==
    CASE f.name = "dev"    -> line
      [] f.name = "serial" -> serialState[f.idx]
      [] f.name = "level"  -> level[f.idx]
      [] f.name = "ports"  -> ports

SaveStream == [k \in 1 .. Len(vmstate_fields) |-> FieldValue(vmstate_fields[k])]

\* a stream is loaded only if its version lies in
\* minimum_version_id .. version_id
VersionAccepted(v) == v <= version_id /\ v >= minimum_version_id

\* number of leading fields loaded completely: none when the version is
\* rejected, those before the failing sub-device when its nested load
\* fails (fail = -1: no nested load fails), otherwise all of them
LoadCount(v, fail) ==
    IF ~VersionAccepted(v) THEN 0
    ELSE IF fail = -1 THEN Len(vmstate_fields)
    ELSE (CHOOSE k \in 1 .. Len(vmstate_fields) :
             vmstate_fields[k] = [name |-> "serial", idx |-> fail]) - 1

\* fields are loaded in place, in stream order: the value of field
\* (nm, idx) after the first n fields have been read from stream b
Loaded(nm, idx, b, n, old) ==
    LET ks == { k \in 1 .. n : vmstate_fields[k] = [name |-> nm, idx |-> idx] }
    IN  IF ks = {} THEN old
        ELSE b[CHOOSE k \in ks : \A m \in ks : m <= k]

Or2(a, b) == IF a # 0 \/ b # 0 THEN 1 ELSE 0

\* the stream of a sender that holds a third sub-device, in state s2,
\* and is otherwise in the state the last Save was taken in
ThreeSubdeviceStream(s2) ==
    << Or2(savedFrom.level[0], savedFrom.level[1]),
       savedFrom.serial[0], savedFrom.serial[1], s2,
       savedFrom.level[0], savedFrom.level[1] >>

Versions == 1 .. MaxVersion

Save ==
    /\ status = "realized"
    /\ pc = "idle"
    /\ saved' = SaveStream
    /\ savedFrom' = [level |-> level, serial |-> serialState, line |-> line]
    /\ lastOp' = "save"
    /\ lastBlob' = <<>>
    /\ lastArgs' = <<>>
    /\ ret' = "ok"
    /\ driven' = <<>>
    /\ UNCHANGED << lifecycleVars, level, line, serialState >>

\* the stream ends where the description ends
Consumed(b) == Len(b) = Len(vmstate_fields)

\* result of a load: the version is rejected, a nested load fails, the
\* fields are loaded but the stream holds more than the description reads,
\* or the load succeeds
LoadResult(b, v, fail) ==
    IF ~VersionAccepted(v) THEN "EINVAL"
    ELSE IF fail # -1 THEN "error"
    ELSE IF ~Consumed(b) THEN "trailing"
    ELSE "ok"

\* loading stream b, tagged with version v, into the activated device;
\* w is what a sub-device whose nested load fails is left holding.  A load
\* that does not succeed fails the resume: the guest never runs on the
\* device again and only teardown follows.
Restore(b, v, fail, w) ==
    /\ status = "realized"
    /\ pc = "idle"
    /\ LET n == LoadCount(v, fail)
       IN  /\ line' = Loaded("dev", 0, b, n, line)
           /\ serialState' =
                [k \in Ports |->
                   IF VersionAccepted(v) /\ fail = k THEN w
                   ELSE Loaded("serial", k, b, n, serialState[k])]
           /\ level' = [k \in Ports |-> Loaded("level", k, b, n, level[k])]
           /\ ports' = Loaded("ports", 0, b, n, ports)
    /\ ret' = LoadResult(b, v, fail)
    /\ status' = IF LoadResult(b, v, fail) = "ok" THEN "realized"
                 ELSE "load_failed"
    /\ driven' = <<>>
    /\ lastOp' = "restore"
    /\ lastBlob' = b
    /\ lastArgs' = << v, fail >>
    /\ UNCHANGED << pc, i, name, serialRealized, serialIrq, mmiobar, irqs,
                    released, activations, snapshotVars >>

\* what a load can meet: fail = -1, every nested load succeeds; fail = k,
\* the nested load of sub-device k fails and leaves it holding w
LoadOutcomes ==
    { << -1, 0 >> } \cup { << k, w >> : k \in Ports, w \in SerialStates }

RestoreSaved ==
    /\ saved # <<>>
    /\ \E v \in Versions, o \in LoadOutcomes : Restore(saved, v, o[1], o[2])

RestoreForeign ==
    /\ saved # <<>>
    /\ \E s2 \in SerialStates, v \in Versions, o \in LoadOutcomes :
           Restore(ThreeSubdeviceStream(s2), v, o[1], o[2])

(* --------------------------- specification ---------------------------- *)

Next ==
    \/ RealizeBegin
    \/ RealizeSubOk
    \/ RealizeSubFail
    \/ RealizeWire
    \/ RealizeName
    \/ RealizeMap
    \/ RealizeInc
    \/ Deactivate
    \/ OnLevelChange
    \/ SerialAccess
    \/ Save
    \/ RestoreSaved
    \/ RestoreForeign

Spec == Init /\ [][Next]_vars

(* ------------- the entry points called without preconditions ---------- *)

\* realize is called whenever the device is inactive as far as its caller
\* can tell: no handler is running and no sub-device is activated; the
\* caller does not see pci->ports
ReactivatePre ==
    /\ status \in {"created", "failed", "removed"}
    /\ pc = "idle"
    /\ \A k \in Ports : ~serialRealized[k]
    /\ activations < MaxActivate

Reactivate == ReactivatePre /\ RealizeStart

\* an interrupt source that exists is raised or lowered, whether or not a
\* sub-device is wired to it
StrayLevelChange ==
    \E n \in Ports, lvl \in Levels :
        /\ pc = "idle"
        /\ ~Deliverable(n)
        /\ irqs.src[n] = "live"
        /\ ports <= nports
        /\ multi_serial_irq_mux(n, lvl)

\* the loops over pci->ports leave the arrays once ports exceeds their
\* size; the handlers that run them are not followed further
InsideArrays == ports <= nports

DeactivateInside == InsideArrays /\ Deactivate
OnLevelChangeInside == InsideArrays /\ OnLevelChange

NextAnyCall ==
    \/ Reactivate
    \/ RealizeSubOk
    \/ RealizeSubFail
    \/ RealizeWire
    \/ RealizeName
    \/ RealizeMap
    \/ RealizeInc
    \/ DeactivateInside
    \/ OnLevelChangeInside
    \/ StrayLevelChange
    \/ SerialAccess
    \/ Save
    \/ RestoreSaved
    \/ RestoreForeign

SpecAnyCall == Init /\ [][NextAnyCall]_vars

(* ------------------------------ properties ---------------------------- *)

Activated == status = "realized"
ActivateFailed == status = "failed" /\ lastOp = "realize"

\* C1: on an activated device, right after every multi_serial_irq_mux call
\* the INTx level is the OR of both level entries, and that value is what
\* the call passed to pci_set_irq
C1_LineIsOrOfLevels ==
    (Activated /\ lastOp = "mux") =>
        /\ line = Or2(level[0], level[1])
        /\ driven = << line >>

C1_Witness ==
    /\ Activated /\ lastOp = "mux"
    /\ level[0] = 0 /\ level[1] # 0 /\ line = 1

\* C2: after a realize in which a sub-device failed to realize (at index 0
\* or at index 1), pci->ports is 0
C2_FailedActivateLeavesZeroPorts ==
    ActivateFailed => ports = 0

\* C3: after a failed realize none of the interrupt sources allocated by
\* that call is still allocated
C3_FailedActivateFreesAllIrqs ==
    ActivateFailed => \A k \in Ports : irqs.src[k] # "live"

\* C4: after a realize that failed at index i no sub-device is realized, no
\* sub-region is mapped, and exactly the names of ports 0..i-1 were
\* allocated and each was freed exactly once, with no unrealize or unmap of
\* a port that was not realized or mapped
C4_FailedActivateRollsBackPorts ==
    ActivateFailed =>
        /\ \A k \in Ports : ~serialRealized[k]
        /\ mmiobar.sub = {}
        /\ \A k \in Ports :
             IF k < i THEN name[k] = "freed" /\ released.name[k] = 1
                      ELSE name[k] = "null" /\ released.name[k] = 0
        /\ released.unrealizeIdle = {}
        /\ released.delUnmapped = {}

C4_Witness ==
    /\ ActivateFailed
    /\ i = 1
    /\ name[0] = "freed"
    /\ ~serialRealized[0]

Overlap(r, q) == r.offset < q.offset + q.size /\ q.offset < r.offset + r.size

\* C5: an activated device has ports = 2 and exactly two sub-regions in the
\* 16 KiB BAR, port k at 0x1000 + 0x200 * k (4096 and 4608), 8 bytes each,
\* disjoint and inside the BAR
C5_ActivatedLayout ==
    Activated =>
        /\ ports = 2
        /\ mmiobar.sub = { [port |-> 0, offset |-> 4096, size |-> 8],
                           [port |-> 1, offset |-> 4608, size |-> 8] }
        /\ \A r \in mmiobar.sub : r.offset + r.size <= MMIOBAR_SIZE
        /\ \A r \in mmiobar.sub : \A q \in mmiobar.sub :
             r # q => ~Overlap(r, q)

C5_Witness ==
    /\ Activated /\ lastOp = "realize" /\ ret = "ok"
    /\ Cardinality(mmiobar.sub) = 2

\* C6: the exit callback applied to a fully activated device ends with
\* ports = 0, both names freed and no sub-region in the BAR
C6_DeactivateResetsDevice ==
    [][(status = "realized" /\ status' = "removed") =>
          /\ ports' = 0
          /\ \A k \in Ports : name'[k] = "freed"
          /\ mmiobar'.sub = {}]_vars

\* C7: a successful load of the stream the last Save wrote leaves the level
\* array and both sub-device states equal to what they were when it was
\* saved, whatever the device held before the load
C7_SaveRestoreRoundTrip ==
    (lastOp = "restore" /\ ret = "ok" /\ lastBlob = saved) =>
        /\ level = savedFrom.level
        /\ serialState = savedFrom.serial

C7_Witness ==
    /\ lastOp = "restore" /\ ret = "ok" /\ lastBlob = saved
    /\ level[1] = 1 /\ level[0] = 0
    /\ serialState[0] = 1 /\ serialState[1] = 0

C9_RestoreRunsMuxOnce ==
    (lastOp = "restore" /\ ret = "ok") =>
        /\ Len(driven) = 1
        /\ line = Or2(level[0], level[1])

\* C9 (amended): a successful load leaves the INTx level equal to the OR of
\* the loaded level array, because the INTx level is loaded with the PCI
\* function's own state from a stream that Save wrote; the load does not
\* run the multiplexer and passes no value to pci_set_irq
C9_RestoreKeepsLineConsistent ==
    (lastOp = "restore" /\ ret = "ok") =>
        /\ line = Or2(level[0], level[1])
        /\ line = savedFrom.line
        /\ driven = <<>>

C9_Witness ==
    /\ lastOp = "restore" /\ ret = "ok"
    /\ line = 1 /\ level[0] = 1

\* C10: no name and no interrupt source is released twice, no sub-region
\* that is not mapped is unmapped and no sub-device that is not realized is
\* unrealized, also when the exit callback runs after the rollback of a
\* failed realize
C10_NothingReleasedTwice ==
    /\ \A k \in Ports : released.name[k] <= 1 /\ released.irq[k] <= 1
    /\ released.delUnmapped = {}
    /\ released.unrealizeIdle = {}

IsMapped(k) ==
    [port |-> k, offset |-> SubregionOffset(k), size |-> SUBREGION_SIZE]
        \in mmiobar.sub
NotMapped(k) == \A r \in mmiobar.sub : r.port # k

FullyWired(k) ==
    /\ serialRealized[k]
    /\ serialIrq[k] = k
    /\ name[k] = "live"
    /\ IsMapped(k)

Untouched(k) ==
    /\ ~serialRealized[k]
    /\ serialIrq[k] = -1
    /\ name[k] = "null"
    /\ NotMapped(k)

C12_FailedLoadIsReported ==
    (lastOp = "restore" /\ (lastArgs[1] > 1 \/ lastArgs[2] # -1)) =>
        /\ ret \in {"EINVAL", "error"}
        /\ status = "load_failed"

C12_Witness ==
    /\ lastOp = "restore"
    /\ lastArgs = << 1, 1 >>
    /\ ret = "error"
    /\ serialState[0] = lastBlob[2]
    /\ serialState[0] # 0

\* C13: a load, successful or not, is applied to a device with ports = 2
\* and both sub-devices realized, and leaves ports, the realized
\* sub-devices, the names, the BAR with its sub-regions and the interrupt
\* sources as they were
C13_RestoreKeepsSubdevices ==
    [][lastOp' = "restore" =>
          /\ status = "realized" /\ ports = 2
          /\ \A k \in Ports : serialRealized[k]
          /\ ports' = ports
          /\ serialRealized' = serialRealized
          /\ name' = name
          /\ mmiobar' = mmiobar
          /\ irqs' = irqs]_vars

C13_Witness ==
    /\ lastOp = "restore"
    /\ ret = "trailing"
    /\ ports = 2
    /\ \A k \in Ports : FullyWired(k)
    /\ irqs.array = "live"

\* C14: a multi_serial_irq_mux(n, level) call stores level to level[n],
\* leaves the other level entry alone, drives the INTx level once, and
\* changes nothing else of the device
C14_MuxChangesOneLevel ==
    [][lastOp' = "mux" =>
          /\ level'[lastArgs'[1]] = lastArgs'[2]
          /\ \A k \in Ports : k # lastArgs'[1] => level'[k] = level[k]
          /\ driven' = << line' >>
          /\ UNCHANGED << status, ports, name, serialRealized, serialState,
                          serialIrq, mmiobar, irqs >>]_vars

C14_Witness ==
    /\ Activated /\ lastOp = "mux"
    /\ lastArgs = << 0, 0 >>
    /\ level[0] = 0 /\ level[1] = 1

\* C15: on an activated device, a multi_serial_irq_mux call for one input
\* leaves the INTx level asserted whenever the other input's level entry
\* is asserted, whether the call asserts or deasserts its own input
C15_AssertingPortHoldsLine ==
    [][(/\ status = "realized"
        /\ lastOp' = "mux"
        /\ \E p \in Ports : p # lastArgs'[1] /\ level[p] # 0) =>
          /\ line' = 1
          /\ driven' = << 1 >>]_vars

C15_Witness ==
    /\ Activated /\ lastOp = "mux"
    /\ lastArgs = << 1, 0 >>
    /\ level[0] = 1 /\ level[1] = 0
    /\ line = 1

\* C16: a multi_serial_irq_mux call with n outside 0 .. ports - 1 stores no
\* level, changes nothing of the device and passes nothing to pci_set_irq
C16_OutOfRangeIndexIgnored ==
    [][(lastOp' = "mux" /\ lastArgs'[1] >= ports) =>
          /\ level' = level
          /\ line' = line
          /\ driven' = <<>>]_vars

\* C17 (as stated): after a failed realize the BAR is no longer registered
\* and the region behind it is released
C17_FailedActivateReleasesWindow ==
    ActivateFailed => ~mmiobar.registered /\ ~mmiobar.init

\* C17 (amended): the rollback of a failed realize removes the sub-regions
\* only; when the failed realize returns, the 16 KiB region is still
\* initialised and still registered as the function's BAR
C17_FailedActivateKeepsWindow ==
    ActivateFailed =>
        /\ mmiobar.init
        /\ mmiobar.registered
        /\ mmiobar.sub = {}

C17_Witness ==
    /\ ActivateFailed
    /\ i = 1
    /\ mmiobar.registered
    /\ released.irqArray = 1

\* C18: in every state reached by any sequence of realize (succeeding or
\* failing), exit, level changes, Save and Restore, ports is in 0 .. 2, so
\* the loops over 0 .. ports - 1 stay inside the 2-element arrays
C18_PortsWithinArrays ==
    /\ ports \in 0 .. 2
    /\ \A k \in 0 .. (ports - 1) : k \in 0 .. 1

\* C19: whenever a level change can be delivered for input n, n < ports, no
\* level entry at or above ports is asserted, and the OR over the entries
\* below ports equals the OR over both entries
C19_MuxSeesEveryLevel ==
    /\ \A n \in Ports : Deliverable(n) => n < ports
    /\ (\E n \in Ports : Deliverable(n)) =>
         /\ \A k \in Ports : k >= ports => level[k] = 0
         /\ Pending(level, ports) = Or2(level[0], level[1])

C19_Witness ==
    /\ Deliverable(0) /\ Deliverable(1)
    /\ ports = 2
    /\ level[1] = 1 /\ level[0] = 0
    /\ lastOp = "mux" /\ lastArgs = << 1, 1 >>

====
